---- MODULE Spec2Model ----
(***************************************************************************)
(* Model of the update service of app/routers/updates.py: the version      *)
(* registry (table update_versions), the usage log (table                  *)
(* update_statistics), the public check/download/install/health handlers,  *)
(* the admin create/deactivate/delete handlers and the statistics summary. *)
(*                                                                         *)
(* A Python str is a sequence of one-character strings, so that            *)
(* parse_version can be computed the way the code computes it.             *)
(***************************************************************************)
EXTENDS Integers, Sequences, FiniteSets, TLC

\* ------------------------------------------------------------------------
\* Bounds of the model
\* ------------------------------------------------------------------------
\* longest enumerated input of parse_version (SpecParse)
MaxLen == 4
\* last value of the wall clock
MaxTime == 1
\* highest row id the registry hands out
MaxId == 2
\* longest usage log in Spec and SpecConcurrent
MaxStats == 2
\* longest usage log in SpecDecide
MaxDecideLog == 1
\* longest usage log in SpecStats
MaxLog == 4

VARIABLES
    versions,   \* table update_versions: a set of rows
    nextId,     \* next autoincrement id of update_versions
    now,        \* datetime.utcnow()
    stats,      \* table update_statistics: rows in insertion order
    pending,    \* create requests between their existence check and insert
    req,        \* the request handled last
    resp,       \* the response to req
    statsBefore,\* stats as the request handled last found it
    prev        \* last successful check before req, since the registry changed

vars == <<versions, nextId, now, stats, pending, req, resp, statsBefore, prev>>

\* ------------------------------------------------------------------------
\* Python values
\* ------------------------------------------------------------------------
\* None, where a str is expected
NoneStr == <<"None">>

Digits == {"0", "1", "2", "3", "4", "5", "6", "7", "8", "9"}

DigitVal(c) ==
    CASE c = "0" -> 0 [] c = "1" -> 1 [] c = "2" -> 2 [] c = "3" -> 3
      [] c = "4" -> 4 [] c = "5" -> 5 [] c = "6" -> 6 [] c = "7" -> 7
      [] c = "8" -> 8 [] c = "9" -> 9

Whitespace == {" "}

RECURSIVE LStrip(_, _)
\* str.lstrip(chars): drops EVERY leading character that is in chars
LStrip(s, chars) ==
    IF s # <<>> /\ Head(s) \in chars THEN LStrip(Tail(s), chars) ELSE s

RECURSIVE RStrip(_, _)
RStrip(s, chars) ==
    IF s # <<>> /\ s[Len(s)] \in chars
    THEN RStrip(SubSeq(s, 1, Len(s) - 1), chars)
    ELSE s

\* str.strip()
Strip(s) == RStrip(LStrip(s, Whitespace), Whitespace)

RECURSIVE SplitFrom(_, _, _)
\* the parts of s after the part `part` read so far
SplitFrom(s, part, sep) ==
    IF s = <<>> THEN <<part>>
    ELSE IF Head(s) = sep THEN <<part>> \o SplitFrom(Tail(s), <<>>, sep)
    ELSE SplitFrom(Tail(s), Append(part, Head(s)), sep)

\* str.split(sep) for a one-character sep: never empty, '' gives ['']
Split(s, sep) == SplitFrom(s, <<>>, sep)

RECURSIVE DecimalValue(_)
DecimalValue(ds) ==
    IF ds = <<>> THEN 0
    ELSE 10 * DecimalValue(SubSeq(ds, 1, Len(ds) - 1)) + DigitVal(ds[Len(ds)])

\* int(p) of a str: surrounding whitespace is dropped, one sign is allowed,
\* then at least one digit; anything else raises ValueError (ok = FALSE).
\* ('+' and '_' are also accepted by Python; they are not in the alphabets
\* used here.)
PyInt(p) ==
    LET t      == Strip(p)
        neg    == t # <<>> /\ Head(t) = "-"
        digits == IF neg THEN Tail(t) ELSE t
    IN  IF digits # <<>> /\ \A i \in 1..Len(digits) : digits[i] \in Digits
        THEN [ok |-> TRUE,
              val |-> IF neg THEN 0 - DecimalValue(digits)
                             ELSE DecimalValue(digits)]
        ELSE [ok |-> FALSE, val |-> 0]

RECURSIVE PadParts(_)
\* while len(parts) < 4: parts.append('0')
PadParts(parts) ==
    IF Len(parts) < 4 THEN PadParts(Append(parts, <<"0">>)) ELSE parts

\* parse_version: ok = FALSE stands for the ValueError int() raises
parse_version(version_str) ==
    LET parts == PadParts(Split(LStrip(Strip(version_str), {"v", "V"}), "."))
        ints  == <<PyInt(parts[1]), PyInt(parts[2]), PyInt(parts[3]), PyInt(parts[4])>>
    IN  IF \A i \in 1..4 : ints[i].ok
        THEN [ok |-> TRUE,
              val |-> <<ints[1].val, ints[2].val, ints[3].val, ints[4].val>>]
        ELSE [ok |-> FALSE, val |-> <<>>]

RECURSIVE TupleLess(_, _)
\* Python's a < b on tuples: the first differing position decides, a proper
\* prefix is smaller
TupleLess(a, b) ==
    IF a = <<>> THEN b # <<>>
    ELSE IF b = <<>> THEN FALSE
    ELSE IF Head(a) # Head(b) THEN Head(a) < Head(b)
    ELSE TupleLess(Tail(a), Tail(b))

TupleGreater(a, b) == TupleLess(b, a)

\* ------------------------------------------------------------------------
\* Inputs
\* ------------------------------------------------------------------------
V1_0 == <<"1", ".", "0">>
V2 == <<"2">>
V1_x == <<"1", ".", "x">>
V1_0_0_1 == <<"1", ".", "0", ".", "0", ".", "1">>
V1_1 == <<"1", ".", "1">>
Vv1_0_0_0 == <<"v", "1", ".", "0", ".", "0", ".", "0">>
V2_0_0_0_9 == <<"2", ".", "0", ".", "0", ".", "0", ".", "9">>

\* class VersionCreate; the fields the claims do not turn on are derived
\* from notes so that two inputs differ in them too
VersionCreate(version, update_type, min_required_version, notes) ==
    [version |-> version,
     release_notes |-> notes,
     download_url |-> <<"http://", notes>>,
     file_size |-> Len(version),
     checksum_sha256 |-> <<"sha256:", notes>>,
     update_type |-> update_type,
     force_update |-> update_type = "mandatory",
     min_required_version |-> min_required_version]

\* bodies of POST /updates/versions in Spec and SpecConcurrent
CreateInputs ==
    {VersionCreate(V2, "optional", V1_0, "a"),
     VersionCreate(V1_0, "mandatory", V2, "")}

\* the version strings of SpecDecide
DecideVersions ==
    {V1_0, V2, V1_0_0_1, V1_1, Vv1_0_0_0, V2_0_0_0_9}

\* class UpdateCheckRequest
UpdateCheckRequest(currentVersion) ==
    [op |-> "check",
     product |-> "SimpleBIM",
     currentVersion |-> currentVersion,
     revitVersion |-> "2024",
     machineHash |-> "m1",
     os |-> "Windows"]

\* bodies of POST /updates/check in Spec, SpecConcurrent and SpecStats
CheckRequests == {UpdateCheckRequest(v) : v \in {V1_0, V1_x}}

\* bodies of POST /updates/check in SpecDecide
DecideRequests == {UpdateCheckRequest(v) : v \in DecideVersions}


\* outcomes of the database calls of a check: they succeed, or db.commit()
\* raises
DbFaults == {"none", "commit"}

\* ------------------------------------------------------------------------
\* Responses
\* ------------------------------------------------------------------------
MsgNoRelease == "Chua co ban phat hanh nao"
MsgMandatory == "CAP NHAT BAT BUOC - Phien ban cua ban da qua cu"
MsgAvailable == "Phien ban moi co san! Cap nhat de co trai nghiem tot nhat"
MsgUpToDate == "Ban dang su dung phien ban moi nhat"

\* datetime.isoformat()
IsoFormat(t) == <<"iso", t>>

Response(status, body) == [status |-> status, body |-> body]

\* raise HTTPException(status_code, detail)
HTTPException(status_code, detail) ==
    Response(status_code, [detail |-> detail])

NoRequest == [op |-> "none"]

\* ------------------------------------------------------------------------
\* check_for_updates
\* ------------------------------------------------------------------------
\* a slip: the filter on is_active is left out
LatestCandidatesAnyState(rows) ==
    {v \in rows : \A w \in rows : w.release_date <= v.release_date}

\* a slip: the order_by is left out
LatestCandidatesUnordered(rows) == {v \in rows : v.is_active}

\* .filter(is_active == True).order_by(desc(release_date)).first(): the rows
\* first() may return; the order among rows of equal release_date is the
\* database's choice
LatestCandidates(rows) ==
    {v \in rows : /\ v.is_active
                  /\ \A w \in rows : w.is_active => w.release_date <= v.release_date}

\* the results of the query: {} for None, {row} for a row
LatestResults(rows) ==
    IF LatestCandidates(rows) = {} THEN {{}}
    ELSE {{v} : v \in LatestCandidates(rows)}

\* the response of the branch `if not latest`
NoReleaseResponse(request, clock) ==
    [updateAvailable |-> FALSE,
     latestVersion |-> request.currentVersion,
     minimumRequiredVersion |-> request.currentVersion,
     releaseDate |-> IsoFormat(clock),
     releaseNotes |-> MsgNoRelease,
     downloadUrl |-> "",
     fileSize |-> 0,
     checksumSHA256 |-> "",
     updateType |-> "optional",
     forceUpdate |-> FALSE,
     notificationMessage |-> MsgNoRelease]

\* a slip: >= for >
UpdateAvailableNotStrict(latest_version, current_version) ==
    ~TupleLess(latest_version, current_version)

\* update_available = latest_version > current_version
UpdateAvailable(latest_version, current_version) ==
    TupleGreater(latest_version, current_version)

\* force_update = current_version < min_required
ForceUpdate(current_version, min_required) ==
    TupleLess(current_version, min_required)

\* a slip: the override of the stored classification is left out
EffectiveUpdateTypeStored(stored, force_update) == stored

\* update_type = latest.update_type; if force_update: update_type = "mandatory"
EffectiveUpdateType(stored, force_update) ==
    IF force_update THEN "mandatory" ELSE stored

\* the if/elif/else choosing notification_msg
NotificationMsg(force_update, update_available) ==
    IF force_update THEN MsgMandatory
    ELSE IF update_available THEN MsgAvailable
    ELSE MsgUpToDate

\* a slip: target_version is set whether or not an update is available
CheckStatAlwaysTarget(request, latest, update_available) ==
    [machine_hash |-> request.machineHash,
     current_version |-> request.currentVersion,
     target_version |-> latest.version,
     revit_version |-> request.revitVersion,
     os_version |-> request.os,
     action |-> "check",
     status |-> "success",
     error_message |-> NoneStr]

\* the UpdateStatistic row check_for_updates adds
CheckStat(request, latest, update_available) ==
    [machine_hash |-> request.machineHash,
     current_version |-> request.currentVersion,
     target_version |-> IF update_available THEN latest.version ELSE NoneStr,
     revit_version |-> request.revitVersion,
     os_version |-> request.os,
     action |-> "check",
     status |-> "success",
     error_message |-> NoneStr]

\* the UpdateCheckResponse built from latest
ReleaseResponse(latest, update_available, force_update) ==
    [updateAvailable |-> update_available,
     latestVersion |-> latest.version,
     minimumRequiredVersion |-> latest.min_required_version,
     releaseDate |-> IsoFormat(latest.release_date),
     releaseNotes |-> latest.release_notes,    \* `or ""`: "" stays ""
     downloadUrl |-> latest.download_url,
     fileSize |-> latest.file_size,
     checksumSHA256 |-> latest.checksum_sha256,
     updateType |-> EffectiveUpdateType(latest.update_type, force_update),
     forceUpdate |-> force_update,
     notificationMessage |-> NotificationMsg(force_update, update_available)]

\* except Exception as e: raise HTTPException(status_code=500, ...)
CheckFailed == HTTPException(500, "Update check failed")

\* The body of check_for_updates on the query result `found` ({} or {row}):
\* the response, and the rows the commit adds to update_statistics.
CheckOutcome(request, found, fault, clock) ==
    IF found = {}
    THEN [resp |-> Response(200, NoReleaseResponse(request, clock)), log |-> <<>>]
    ELSE LET latest == CHOOSE v \in found : TRUE
             current_version == parse_version(request.currentVersion)
             latest_version == parse_version(latest.version)
             min_required == parse_version(latest.min_required_version)
         IN  IF ~current_version.ok \/ ~latest_version.ok \/ ~min_required.ok
             THEN [resp |-> CheckFailed, log |-> <<>>]
             ELSE LET update_available ==
                          UpdateAvailable(latest_version.val, current_version.val)
                      force_update ==
                          ForceUpdate(current_version.val, min_required.val)
                  IN  IF fault = "commit"
                      THEN [resp |-> CheckFailed, log |-> <<>>]
                      ELSE [resp |-> Response(200,
                                ReleaseResponse(latest, update_available, force_update)),
                            log |-> <<CheckStat(request, latest, update_available)>>]

\* ------------------------------------------------------------------------
\* Handlers
\* ------------------------------------------------------------------------
\* prev after a request: emptied by a change of the registry, else the
\* check that was handled last, if it returned a decision
PrevAfter(registryChanged) ==
    IF registryChanged THEN {}
    ELSE IF req.op = "check" /\ resp.status = 200
    THEN {[currentVersion |-> req.body.currentVersion, body |-> resp.body]}
    ELSE prev

\* POST /updates/check; limit caps the usage log
check_for_updates(requests, limit) ==
    \E request \in requests, fault \in DbFaults, found \in LatestResults(versions) :
        \E out \in {CheckOutcome(request, found, fault, now)} :
            /\ Len(stats) + Len(out.log) <= limit
            /\ stats' = stats \o out.log
            /\ statsBefore' = stats
            /\ req' = [op |-> "check", body |-> request, fault |-> fault]
            /\ resp' = out.resp
            /\ prev' = PrevAfter(FALSE)
            /\ UNCHANGED <<versions, nextId, now, pending>>

\* the UpdateStatistic row log_download_started adds
DownloadStat(version, machine_hash) ==
    [machine_hash |-> machine_hash,
     current_version |-> NoneStr,
     target_version |-> version,
     revit_version |-> NoneStr,
     os_version |-> NoneStr,
     action |-> "download",
     status |-> "started",
     error_message |-> NoneStr]

\* POST /updates/download-stats
log_download_started(limit) ==
    \E version \in {V2}, machine_hash \in {"m1"} :
        /\ Len(stats) < limit
        /\ stats' = Append(stats, DownloadStat(version, machine_hash))
        /\ statsBefore' = stats
        /\ req' = [op |-> "download", version |-> version,
                   machine_hash |-> machine_hash]
        /\ resp' = Response(200, [status |-> "logged"])
        /\ prev' = PrevAfter(FALSE)
        /\ UNCHANGED <<versions, nextId, now, pending>>

\* the UpdateStatistic row log_install_result adds
InstallStat(version, machine_hash, success, error_message) ==
    [machine_hash |-> machine_hash,
     current_version |-> NoneStr,
     target_version |-> version,
     revit_version |-> NoneStr,
     os_version |-> NoneStr,
     action |-> "install",
     status |-> IF success THEN "success" ELSE "failed",
     error_message |-> error_message]

\* POST /updates/install-stats
log_install_result(limit) ==
    \E version \in {V2}, machine_hash \in {"m1"}, success \in BOOLEAN :
        LET error_message == IF success THEN NoneStr ELSE <<"e">>
        IN  /\ Len(stats) < limit
            /\ stats' = Append(stats,
                   InstallStat(version, machine_hash, success, error_message))
            /\ statsBefore' = stats
            /\ req' = [op |-> "install", version |-> version,
                       machine_hash |-> machine_hash, success |-> success]
            /\ resp' = Response(200, [status |-> "logged"])
            /\ prev' = PrevAfter(FALSE)
            /\ UNCHANGED <<versions, nextId, now, pending>>

\* GET /updates/health
health_check ==
    \E found \in LatestResults(versions) :
        /\ req' = [op |-> "health"]
        /\ resp' = Response(200,
               [status |-> "healthy",
                latest_version_known |->
                    IF found = {} THEN NoneStr
                    ELSE (CHOOSE v \in found : TRUE).version])
        /\ prev' = PrevAfter(FALSE)
        /\ statsBefore' = stats
        /\ UNCHANGED <<versions, nextId, now, stats, pending>>

\* .filter(UpdateVersion.version == data.version).first() is not None
VersionExists(rows, version) == \E v \in rows : v.version = version

\* new_version = UpdateVersion(...), with the id the insert gives it
NewVersion(data, id, clock) ==
    [id |-> id,
     version |-> data.version,
     release_date |-> clock,
     release_notes |-> data.release_notes,
     download_url |-> data.download_url,
     file_size |-> data.file_size,
     checksum_sha256 |-> data.checksum_sha256,
     update_type |-> data.update_type,
     force_update |-> data.force_update,
     min_required_version |-> data.min_required_version,
     is_active |-> TRUE]

\* db.add(new_version); db.commit(): a single-row insert
InsertVersion(rows, row) == rows \cup {row}

\* class VersionResponse
VersionResponse(v) ==
    [id |-> v.id, version |-> v.version,
     release_date |-> IsoFormat(v.release_date),
     release_notes |-> v.release_notes, download_url |-> v.download_url,
     file_size |-> v.file_size, checksum_sha256 |-> v.checksum_sha256,
     update_type |-> v.update_type, force_update |-> v.force_update,
     min_required_version |-> v.min_required_version,
     is_active |-> v.is_active]

VersionExistsError == HTTPException(400, "Version already exists")

\* POST /updates/versions, run without interleaving (one worker: the handler
\* is a coroutine that never awaits)
create_version ==
    \E data \in CreateInputs :
        /\ req' = [op |-> "create", data |-> data]
        /\ IF VersionExists(versions, data.version)
           THEN /\ resp' = VersionExistsError
                /\ prev' = PrevAfter(FALSE)
                /\ UNCHANGED <<versions, nextId>>
           ELSE /\ nextId <= MaxId
                /\ versions' = InsertVersion(versions, NewVersion(data, nextId, now))
                /\ nextId' = nextId + 1
                /\ resp' = Response(200, VersionResponse(NewVersion(data, nextId, now)))
                /\ prev' = PrevAfter(TRUE)
        /\ statsBefore' = stats
        /\ UNCHANGED <<now, stats, pending>>

NotFoundError == HTTPException(404, "Version not found")

\* .filter(UpdateVersion.id == version_id).first(): {} for None
FindVersion(rows, version_id) == {v \in rows : v.id = version_id}

\* version.is_active = False; db.commit()
Deactivated(rows, version_id) ==
    {IF v.id = version_id THEN [v EXCEPT !.is_active = FALSE] ELSE v : v \in rows}

\* PUT /updates/versions/{version_id}/deactivate
deactivate_version ==
    \E version_id \in 1..MaxId :
        /\ req' = [op |-> "deactivate", version_id |-> version_id]
        /\ IF FindVersion(versions, version_id) = {}
           THEN /\ resp' = NotFoundError
                /\ prev' = PrevAfter(FALSE)
                /\ UNCHANGED versions
           ELSE /\ versions' = Deactivated(versions, version_id)
                /\ resp' = Response(200, [status |-> "deactivated",
                       version |-> (CHOOSE v \in FindVersion(versions, version_id) : TRUE).version])
                /\ prev' = PrevAfter(TRUE)
        /\ statsBefore' = stats
        /\ UNCHANGED <<nextId, now, stats, pending>>

\* db.delete(version); db.commit()
Deleted(rows, version_id) == {v \in rows : v.id # version_id}

\* DELETE /updates/versions/{version_id}
delete_version ==
    \E version_id \in 1..MaxId :
        /\ req' = [op |-> "delete", version_id |-> version_id]
        /\ IF FindVersion(versions, version_id) = {}
           THEN /\ resp' = NotFoundError
                /\ prev' = PrevAfter(FALSE)
                /\ UNCHANGED versions
           ELSE /\ versions' = Deleted(versions, version_id)
                /\ resp' = Response(200, [status |-> "deleted",
                       version |-> (CHOOSE v \in FindVersion(versions, version_id) : TRUE).version])
                /\ prev' = PrevAfter(TRUE)
        /\ statsBefore' = stats
        /\ UNCHANGED <<nextId, now, stats, pending>>

\* the wall clock advances
Tick ==
    /\ now < MaxTime
    /\ now' = now + 1
    /\ UNCHANGED <<versions, nextId, stats, pending, req, resp, statsBefore, prev>>

\* ------------------------------------------------------------------------
\* Spec: one worker, every handler runs to its end (log_install_result,
\* which appends a row as log_download_started does, is in SpecStats)
\* ------------------------------------------------------------------------
Admins == {"admin1", "admin2"}

Init ==
    /\ versions = {}
    /\ nextId = 1
    /\ now = 0
    /\ stats = <<>>
    /\ pending = [a \in Admins |-> {}]
    /\ req = NoRequest
    /\ resp = Response(0, [detail |-> "none"])
    /\ statsBefore = <<>>
    /\ prev = {}

Next ==
    \/ check_for_updates(CheckRequests, MaxStats)
    \/ log_download_started(MaxStats)
    \/ health_check
    \/ create_version
    \/ deactivate_version
    \/ delete_version
    \/ Tick

Spec == Init /\ [][Next]_vars

\* ------------------------------------------------------------------------
\* SpecParse: parse_version on every short string and on the documented ones
\* ------------------------------------------------------------------------
Alphabet == {"v", "V", ".", "0", "1", "2", "-", " ", "x"}

V1_2 == <<"1", ".", "2">>
Vv2_0_1_5 == <<"v", "2", ".", "0", ".", "1", ".", "5">>
V3_1_0_0 == <<"3", ".", "1", ".", "0", ".", "0">>

ParseInputs ==
    UNION {[1..n -> Alphabet] : n \in 0..MaxLen}
        \cup {V1_2, Vv2_0_1_5, V3_1_0_0, Vv1_0_0_0, V2_0_0_0_9}

InitParse ==
    /\ req \in {[op |-> "parse", version_str |-> s] : s \in ParseInputs}
    /\ resp = [ok |-> FALSE, val |-> <<>>]
    /\ versions = {}
    /\ nextId = 1
    /\ now = 0
    /\ stats = <<>>
    /\ pending = [a \in Admins |-> {}]
    /\ statsBefore = <<>>
    /\ prev = {}

ParseVersion ==
    /\ req.op = "parse"
    /\ resp' = parse_version(req.version_str)
    /\ req' = [req EXCEPT !.op = "parsed"]
    /\ UNCHANGED <<versions, nextId, now, stats, pending, statsBefore, prev>>

NextParse == ParseVersion

SpecParse == InitParse /\ [][NextParse]_vars

\* C3: every version string parse_version accepts is normalised to exactly
\* four non-negative integer components.
C3_FourNonNegativeComponents ==
    (req.op = "parsed" /\ resp.ok) =>
        /\ Len(resp.val) = 4
        /\ \A i \in 1..4 : resp.val[i] \in Nat

\* ------------------------------------------------------------------------
\* SpecDecide: check_for_updates against one release, over DecideVersions
\* ------------------------------------------------------------------------
DecideInputs ==
    {VersionCreate(v, t, m, "d") :
        v \in DecideVersions, t \in {"optional", "mandatory"}, m \in DecideVersions}

InitDecide ==
    /\ versions \in {{NewVersion(d, 1, 0)} : d \in DecideInputs}
    /\ nextId = 2
    /\ now = 0
    /\ stats = <<>>
    /\ pending = [a \in Admins |-> {}]
    /\ req = NoRequest
    /\ resp = Response(0, [detail |-> "none"])
    /\ statsBefore = <<>>
    /\ prev = {}

NextDecide == check_for_updates(DecideRequests, MaxDecideLog)

SpecDecide == InitDecide /\ [][NextDecide]_vars

\* the last request was a check answered with a decision built from a release
DecidedFromRelease ==
    /\ req.op = "check"
    /\ resp.status = 200
    /\ resp.body.notificationMessage # MsgNoRelease

\* the quadruple of a well-formed version string
Quad(s) == parse_version(s).val

\* a before b in the lexicographic order, most significant component first
LexLess(a, b) ==
    \E i \in 1..4 : a[i] < b[i] /\ \A j \in 1..(i - 1) : a[j] = b[j]

\* C2: in a decision built from a release, updateAvailable holds exactly when
\* the release's quadruple is strictly greater than the client's, and
\* forceUpdate exactly when the client's quadruple is strictly less than the
\* minimum-required quadruple, in lexicographic order.
C2_StrictLexicographicDecision ==
    DecidedFromRelease =>
        LET current == Quad(req.body.currentVersion)
            latest == Quad(resp.body.latestVersion)
            minimum == Quad(resp.body.minimumRequiredVersion)
        IN  /\ resp.body.updateAvailable <=> LexLess(current, latest)
            /\ resp.body.forceUpdate <=> LexLess(current, minimum)

\* a client on exactly the latest version, not below the minimum: no update
\* offered, none forced
C2_Witness ==
    /\ DecidedFromRelease
    /\ Quad(req.body.currentVersion) = Quad(resp.body.latestVersion)
    /\ req.body.currentVersion # resp.body.latestVersion
    /\ ~LexLess(Quad(req.body.currentVersion), Quad(resp.body.minimumRequiredVersion))
    /\ ~resp.body.updateAvailable
    /\ ~resp.body.forceUpdate

\* C4: in a decision built from a release, forceUpdate makes updateType
\* "mandatory" and the notification the mandatory text; without forceUpdate,
\* updateType is the stored classification and the notification is the
\* "available" text if updateAvailable, else the "up to date" text.
C4_ForceTakesPrecedence ==
    DecidedFromRelease =>
        \A latest \in versions :
            IF resp.body.forceUpdate
            THEN /\ resp.body.updateType = "mandatory"
                 /\ resp.body.notificationMessage = MsgMandatory
            ELSE /\ resp.body.updateType = latest.update_type
                 /\ resp.body.notificationMessage =
                        IF resp.body.updateAvailable THEN MsgAvailable
                        ELSE MsgUpToDate

\* forced although no update is available and the release is stored optional
C4_Witness ==
    /\ DecidedFromRelease
    /\ resp.body.forceUpdate
    /\ ~resp.body.updateAvailable
    /\ \E latest \in versions : latest.update_type = "optional"
    /\ resp.body.updateType = "mandatory"
    /\ resp.body.notificationMessage = MsgMandatory

\* ------------------------------------------------------------------------
\* Claims on Spec
\* ------------------------------------------------------------------------
ActiveRows == {v \in versions : v.is_active}

\* the active rows no active row is newer than
NewestActive ==
    {v \in ActiveRows : \A w \in ActiveRows : w.release_date <= v.release_date}

\* body is the decision built from row v for the request in req
BuiltFrom(body, v) ==
    /\ body.latestVersion = v.version
    /\ body.minimumRequiredVersion = v.min_required_version
    /\ body.releaseDate = IsoFormat(v.release_date)
    /\ body.releaseNotes = v.release_notes
    /\ body.downloadUrl = v.download_url
    /\ body.fileSize = v.file_size
    /\ body.checksumSHA256 = v.checksum_sha256

\* C1: a check answered with a decision, and the health endpoint, answer
\* from an active release no active release is newer than, and take the
\* no-release branch exactly when no release is active.
C1_LatestIsNewestActive ==
    /\ (req.op = "check" /\ resp.status = 200) =>
          IF ActiveRows = {}
          THEN /\ resp.body.notificationMessage = MsgNoRelease
               /\ ~resp.body.updateAvailable
               /\ ~resp.body.forceUpdate
               /\ resp.body.latestVersion = req.body.currentVersion
          ELSE /\ resp.body.notificationMessage # MsgNoRelease
               /\ \E v \in NewestActive : BuiltFrom(resp.body, v)
    /\ req.op = "health" =>
          IF ActiveRows = {}
          THEN resp.body.latest_version_known = NoneStr
          ELSE \E v \in NewestActive : resp.body.latest_version_known = v.version

\* the decision is built from the newest active release although an older
\* active release has the higher version
C1_Witness ==
    /\ req.op = "check"
    /\ resp.status = 200
    /\ \E v \in NewestActive, w \in ActiveRows :
          /\ w.release_date < v.release_date
          /\ parse_version(v.version).ok
          /\ parse_version(w.version).ok
          /\ LexLess(Quad(v.version), Quad(w.version))
          /\ BuiltFrom(resp.body, v)

\* the row a check answered from a release adds to the log
ExpectedCheckStat ==
    [machine_hash |-> req.body.machineHash,
     current_version |-> req.body.currentVersion,
     target_version |-> IF resp.body.updateAvailable
                        THEN resp.body.latestVersion ELSE NoneStr,
     revit_version |-> req.body.revitVersion,
     os_version |-> req.body.os,
     action |-> "check",
     status |-> "success",
     error_message |-> NoneStr]

\* C5 as claimed: every check answered with a decision, the no-release
\* decision included, appends exactly one UsageEvent, the check event.
C5_EveryDecisionLogged ==
    (req.op = "check" /\ resp.status = 200) =>
        stats = Append(statsBefore, ExpectedCheckStat)

\* C5: a check answered with a decision built from a release appends exactly
\* one UsageEvent (action check, status success, the client's version,
\* target_version the release's version if updateAvailable, else null); a
\* check answered with the no-release decision appends none.
C5_ReleaseDecisionLogged ==
    (req.op = "check" /\ resp.status = 200) =>
        IF resp.body.notificationMessage = MsgNoRelease
        THEN stats = statsBefore
        ELSE stats = Append(statsBefore, ExpectedCheckStat)

\* a decision without an update available was logged with a null target
\* after an earlier event
C5_Witness ==
    /\ DecidedFromRelease
    /\ ~resp.body.updateAvailable
    /\ statsBefore # <<>>
    /\ stats = Append(statsBefore, ExpectedCheckStat)
    /\ stats[Len(stats)].target_version = NoneStr

\* the earlier decision for the version of the check in req, if any
PrevSameVersion ==
    {p \in prev : req.op = "check" /\ p.currentVersion = req.body.currentVersion}

\* C6 as claimed: two checks of one version with no registry change in
\* between return the same payload in every field, whatever the registry.
C6_SamePayload ==
    (req.op = "check" /\ resp.status = 200) =>
        \A p \in PrevSameVersion : resp.body = p.body

\* C6: two checks of one version with no registry change in between that
\* both return a decision agree in every field when exactly one active
\* release has the most recent timestamp, and in every field but releaseDate
\* when no release is active.
C6_SamePayloadFromOneRelease ==
    (req.op = "check" /\ resp.status = 200) =>
        \A p \in PrevSameVersion :
            /\ Cardinality(NewestActive) = 1 => resp.body = p.body
            /\ ActiveRows = {} =>
                  [resp.body EXCEPT !.releaseDate = p.body.releaseDate] = p.body

\* a second decision from the same release, after the event the first
\* one logged
C6_Witness ==
    /\ DecidedFromRelease
    /\ Cardinality(NewestActive) = 1
    /\ PrevSameVersion # {}
    /\ \A p \in PrevSameVersion : resp.body = p.body
    /\ statsBefore # <<>>

\* a version string int() rejects
Malformed(s) == ~parse_version(s).ok

\* C8: a check whose currentVersion has a non-numeric component ends in a
\* client (4xx) error and appends no UsageEvent.
C8_MalformedIsClientError ==
    (req.op = "check" /\ Malformed(req.body.currentVersion)) =>
        /\ resp.status \in 400..499
        /\ stats = statsBefore

\* C9: when the registry read and the comparison succeed, the client gets
\* the decision even if the commit of the UsageEvent fails.
C9_LoggingFaultNotFatal ==
    ( /\ req.op = "check"
      /\ req.fault = "commit"
      /\ ~Malformed(req.body.currentVersion)
      /\ NewestActive # {}
      /\ \A v \in NewestActive :
            ~Malformed(v.version) /\ ~Malformed(v.min_required_version) )
    => (resp.status = 200 /\ \E v \in NewestActive : BuiltFrom(resp.body, v))

\* ------------------------------------------------------------------------
\* SpecConcurrent: several workers on one database; a create request can be
\* overtaken between its existence query and its insert
\* ------------------------------------------------------------------------
\* create_version up to the existence check: the 400, or on to the insert
create_version_query(a) ==
    \E data \in CreateInputs :
        /\ pending[a] = {}
        /\ IF VersionExists(versions, data.version)
           THEN /\ req' = [op |-> "create", data |-> data]
                /\ resp' = VersionExistsError
                /\ statsBefore' = stats
                /\ prev' = PrevAfter(FALSE)
                /\ UNCHANGED pending
           ELSE /\ pending' = [pending EXCEPT ![a] = {data}]
                /\ UNCHANGED <<req, resp, statsBefore, prev>>
        /\ UNCHANGED <<versions, nextId, now, stats>>

\* create_version from new_version = UpdateVersion(...) to its response
create_version_insert(a) ==
    \E data \in pending[a] :
        /\ nextId <= MaxId
        /\ versions' = InsertVersion(versions, NewVersion(data, nextId, now))
        /\ nextId' = nextId + 1
        /\ pending' = [pending EXCEPT ![a] = {}]
        /\ req' = [op |-> "create", data |-> data]
        /\ resp' = Response(200, VersionResponse(NewVersion(data, nextId, now)))
        /\ statsBefore' = stats
        /\ prev' = PrevAfter(TRUE)
        /\ UNCHANGED <<now, stats>>

NextConcurrent ==
    \/ \E a \in Admins : create_version_query(a)
    \/ \E a \in Admins : create_version_insert(a)
    \/ deactivate_version
    \/ delete_version
    \/ health_check
    \/ Tick

SpecConcurrent == Init /\ [][NextConcurrent]_vars

\* C7: no two rows of the registry, active or not, carry the same version
\* string, also when two create requests interleave.
C7_NoDuplicateVersion ==
    \A v \in versions, w \in versions : v.version = w.version => v.id = w.id

\* ------------------------------------------------------------------------
\* SpecStats: the usage log and its summary
\* ------------------------------------------------------------------------
\* .filter(...).count(): the number of rows of log among `rows`
Count(log, rows) == Cardinality({i \in 1..Len(log) : log[i] \in rows})

\* the nearest integer to n / d, a tie going to the even one, as round() does
RoundHalfEven(n, d) ==
    LET q == n \div d
        r == n % d
    IN  IF 2 * r < d THEN q
        ELSE IF 2 * r > d THEN q + 1
        ELSE IF q % 2 = 0 THEN q ELSE q + 1

\* a slip: the rate is cut off after two decimals
SuccessRateTruncated(success_installs, total_installs) ==
    IF total_installs > 0 THEN (10000 * success_installs) \div total_installs
    ELSE 0

\* round(100 * success_installs / total_installs, 2) if total_installs > 0
\* else 0, in hundredths of a percent
SuccessRate(success_installs, total_installs) ==
    IF total_installs > 0 THEN RoundHalfEven(10000 * success_installs, total_installs)
    ELSE 0

\* the rows of log the filters of the four count queries keep
Checks(log) == {log[i] : i \in {j \in 1..Len(log) : log[j].action = "check"}}

Downloads(log) == {log[i] : i \in {j \in 1..Len(log) : log[j].action = "download"}}

Installs(log) == {log[i] : i \in {j \in 1..Len(log) : log[j].action = "install"}}

SuccessInstalls(log) ==
    {log[i] : i \in {j \in 1..Len(log) :
                         log[j].action = "install" /\ log[j].status = "success"}}

\* the group_by query: reported version |-> number of its check rows
VersionDistribution(log) ==
    LET reported == {log[i].current_version :
                        i \in {j \in 1..Len(log) :
                                  /\ log[j].action = "check"
                                  /\ log[j].current_version # NoneStr}}
    IN  [v \in reported |->
            Cardinality({i \in 1..Len(log) :
                            /\ log[i].action = "check"
                            /\ log[i].current_version = v})]

\* the body of the response of get_update_statistics
Statistics(log) ==
    [total_checks |-> Count(log, Checks(log)),
     total_downloads |-> Count(log, Downloads(log)),
     total_installs |-> Count(log, Installs(log)),
     success_installs |-> Count(log, SuccessInstalls(log)),
     success_rate |-> SuccessRate(Count(log, SuccessInstalls(log)),
                                  Count(log, Installs(log))),
     version_distribution |-> VersionDistribution(log)]

\* GET /updates/statistics
get_update_statistics ==
    /\ req' = [op |-> "statistics"]
    /\ resp' = Response(200, Statistics(stats))
    /\ statsBefore' = stats
    /\ prev' = PrevAfter(FALSE)
    /\ UNCHANGED <<versions, nextId, now, stats, pending>>

InitStats ==
    /\ versions = {NewVersion(VersionCreate(V2, "optional", V1_0, "a"), 1, 0)}
    /\ nextId = 2
    /\ now = 0
    /\ stats = <<>>
    /\ pending = [a \in Admins |-> {}]
    /\ req = NoRequest
    /\ resp = Response(0, [detail |-> "none"])
    /\ statsBefore = <<>>
    /\ prev = {}

NextStats ==
    \/ check_for_updates(CheckRequests, MaxLog)
    \/ log_download_started(MaxLog)
    \/ log_install_result(MaxLog)
    \/ get_update_statistics

SpecStats == InitStats /\ [][NextStats]_vars

InstallRows == {i \in 1..Len(stats) : stats[i].action = "install"}

SuccessRows == {i \in InstallRows : stats[i].status = "success"}

\* C10 as claimed: the success rate is 0 exactly when no install was logged.
C10_ZeroOnlyWithoutInstalls ==
    req.op = "statistics" =>
        (resp.body.success_rate = 0 <=> InstallRows = {})

\* C10: total_installs counts every install row and success_installs the
\* successful ones, never more; the success rate is 0 when no install was
\* logged and otherwise the hundredth of a percent nearest to
\* 100 * successes / installs (so it is 0 too when no install succeeded).
C10_SuccessRateRounded ==
    req.op = "statistics" =>
        LET installs == Cardinality(InstallRows)
            successes == Cardinality(SuccessRows)
            rate == resp.body.success_rate
        IN  /\ resp.body.total_installs = installs
            /\ resp.body.success_installs = successes
            /\ resp.body.success_installs <= resp.body.total_installs
            /\ installs = 0 => rate = 0
            /\ installs > 0 =>
                  /\ 2 * (rate * installs - 10000 * successes) <= installs
                  /\ 2 * (10000 * successes - rate * installs) <= installs
            /\ successes = 0 => rate = 0

\* two of three installs succeeded: 66.67 percent
C10_Witness ==
    /\ req.op = "statistics"
    /\ Cardinality(InstallRows) = 3
    /\ Cardinality(SuccessRows) = 2
    /\ resp.body.success_rate = 6667

====
